---- MODULE Spec2Model ----
(***************************************************************************)
(* FLIR image enhancement pipeline of 469_Final.py: adaptive median        *)
(* filter, plateau histogram remap, edge sharpening, palette inversion,    *)
(* driven by main / process_image.                                         *)
(***************************************************************************)
EXTENDS Integers, Sequences, FiniteSets, TLC

VARIABLES pc, image_path, disk, nan_cast, flir_image, filtered_image,
          enhanced_image, k, sharpened_image, optimized_image, started,
          finished, error_dialog, shown, save_option, save_path, written,
          info_dialog, exc, arg, val

vars == <<pc, image_path, disk, nan_cast, flir_image, filtered_image,
          enhanced_image, k, sharpened_image, optimized_image, started,
          finished, error_dialog, shown, save_option, save_path, written,
          info_dialog, exc, arg, val>>

(***************************************************************************)
(* Bounds of the model.                                                    *)
(***************************************************************************)
\* Files offered by the file dialog hold images of at most MaxRows rows,
\* MaxCols columns and MaxPixels pixels.
MaxRows == 3

MaxCols == 4

MaxPixels == 12

\* Intensities the pixels of those images take: 2 is a strict local peak
\* candidate of the histogram scan, 255 lies outside the scanned bins.
Levels == {2, 255}

(***************************************************************************)
(* Images: numpy uint8 arrays of shape (rows, cols); a Python name is      *)
(* unbound, None, or an array.                                             *)
(***************************************************************************)
Unbound == [kind |-> "unbound"]

None == [kind |-> "None"]

Pos(rows, cols) == (0 .. rows - 1) \X (0 .. cols - 1)

Image(rows, cols, px) == [kind |-> "ndarray", rows |-> rows, cols |-> cols, px |-> px]

IsArray(image) == image.kind = "ndarray"

\* Row-major order of the nested "for i ... for j ..." loops.
PosAt(image, n) == <<n \div image.cols, n % image.cols>>

Size(image) == image.rows * image.cols

(***************************************************************************)
(* adaptive_median_filter                                                  *)
(***************************************************************************)
\* The eight neighbours of (i, j), without the centre.
NeighborhoodWithoutCenter(image, i, j) ==
    [n \in 1 .. 8 |->
        LET m == IF n <= 4 THEN n - 1 ELSE n
        IN  image.px[<<i - 1 + (m \div 3), j - 1 + (m % 3)>>]]

\* image[i - 1:i + 2, j - 1:j + 2].flatten()
Neighborhood(image, i, j) ==
    [n \in 1 .. 9 |-> image.px[<<i - 1 + ((n - 1) \div 3), j - 1 + ((n - 1) % 3)>>]]

SeqMin(s) == CHOOSE v \in {s[n] : n \in DOMAIN s} : \A n \in DOMAIN s : v <= s[n]

SeqMax(s) == CHOOSE v \in {s[n] : n \in DOMAIN s} : \A n \in DOMAIN s : v >= s[n]

\* np.median of an odd number of values: the middle one in sorted order.
SeqMedian(s) ==
    LET half == Len(s) \div 2
    IN  CHOOSE v \in {s[n] : n \in DOMAIN s} :
            /\ Cardinality({n \in DOMAIN s : s[n] < v}) <= half
            /\ Cardinality({n \in DOMAIN s : s[n] <= v}) >= half + 1

\* if center_pixel > max_val or center_pixel < min_val
ReplaceGuard(image, i, j) ==
    LET neighborhood == Neighborhood(image, i, j)
    IN  \/ image.px[<<i, j>>] > SeqMax(neighborhood)
        \/ image.px[<<i, j>>] < SeqMin(neighborhood)

FilterPixel(image, i, j) ==
    IF ReplaceGuard(image, i, j)
    THEN SeqMedian(Neighborhood(image, i, j))
    ELSE image.px[<<i, j>>]

\* range(1, rows - 1) x range(1, cols - 1)
Interior(image, p) ==
    /\ p[1] \in 1 .. image.rows - 2
    /\ p[2] \in 1 .. image.cols - 2

\* An output buffer that starts as a copy of the input.
ZerosLikeCopy(image) == image

\* np.zeros_like(image)
ZerosLike(image) ==
    Image(image.rows, image.cols, [p \in Pos(image.rows, image.cols) |-> 0])

adaptive_median_filter(image) ==
    LET filtered == ZerosLike(image)
    IN  Image(filtered.rows, filtered.cols,
              [p \in Pos(image.rows, image.cols) |->
                  IF Interior(image, p)
                  THEN FilterPixel(image, p[1], p[2])
                  ELSE filtered.px[p]])

(***************************************************************************)
(* plateau_histogram                                                       *)
(***************************************************************************)
Bins == 0 .. 255

\* cv2.calcHist([image], [0], None, [256], [0, 256]).flatten()
CalcHist(image) ==
    LET cells == Pos(image.rows, image.cols)
        present == {image.px[p] : p \in cells}
    IN  [v \in Bins |->
            IF v \in present
            THEN Cardinality({p \in cells : image.px[p] = v})
            ELSE 0]

RECURSIVE SetSum(_)
SetSum(S) ==
    IF S = {} THEN 0
    ELSE LET x == CHOOSE y \in S : TRUE IN x + SetSum(S \ {x})

\* for i in range(1, 255): if hist[i-1] < hist[i] and hist[i] > hist[i+1]
PeakSum(hist) ==
    SetSum({i \in 1 .. 254 : hist[i - 1] < hist[i] /\ hist[i] > hist[i + 1]})

\* The accumulated sum, not divided by 2.
ThresholdNotHalved(hist) == PeakSum(hist)

\* threshold = int(threshold / 2)
Threshold(hist) == PeakSum(hist) \div 2

TransformedHist(hist, threshold) ==
    [i \in Bins |-> IF hist[i] > threshold THEN threshold ELSE hist[i]]

\* Sum of t[v] over the bins v of S.
RECURSIVE SumOver(_, _)
SumOver(t, S) ==
    IF S = {} THEN 0
    ELSE LET x == CHOOSE y \in S : TRUE IN t[x] + SumOver(t, S \ {x})

\* np.cumsum(t): Ft[i] = t[0] + ... + t[i]; empty bins add nothing.
CumSum(t) ==
    LET support == {v \in Bins : t[v] # 0}
    IN  [i \in Bins |-> SumOver(t, {v \in support : v <= i})]

\* float32 0.0 // 0.0
NaN == -1

\* (255 * Ft) // max_Ft on float32 arrays
FloorDivide(Ft, max_Ft) ==
    [i \in Bins |-> IF max_Ft = 0 THEN NaN ELSE (255 * Ft[i]) \div max_Ft]

Clipped(image) == TransformedHist(CalcHist(image), Threshold(CalcHist(image)))

MaxFt(image) == CumSum(Clipped(image))[255]

plateau_histogram(image) ==
    LET hist == CalcHist(image)
        threshold == Threshold(hist)
        transformed_hist == TransformedHist(hist, threshold)
        Ft == CumSum(transformed_hist)
        max_Ft == Ft[255]
    IN  FloorDivide(Ft, max_Ft)

(***************************************************************************)
(* edge_sharpening                                                         *)
(***************************************************************************)
\* cv2.GaussianBlur(image, (5, 5), 0) on 8-bit data: the fixed 5-tap kernel
\* [1 4 6 4 1] / 16 in both directions, BORDER_REFLECT_101, rounded.
RECURSIVE BorderReflect101(_, _)
BorderReflect101(p, len) ==
    IF len = 1 THEN 0
    ELSE IF p < 0 THEN BorderReflect101(0 - p, len)
    ELSE IF p >= len THEN BorderReflect101(2 * len - 2 - p, len)
    ELSE p

BlurRow(image, r, j) ==
    LET at(d) == image.px[<<r, BorderReflect101(j + d, image.cols)>>]
    IN  at(-2) + 4 * at(-1) + 6 * at(0) + 4 * at(1) + at(2)

BlurPixel(image, i, j) ==
    LET row(d) == BlurRow(image, BorderReflect101(i + d, image.rows), j)
    IN  (row(-2) + 4 * row(-1) + 6 * row(0) + 4 * row(1) + row(2) + 128) \div 256

GaussianBlur(image) ==
    Image(image.rows, image.cols,
          [p \in Pos(image.rows, image.cols) |-> BlurPixel(image, p[1], p[2])])

\* saturate_cast<uchar>
SaturateCast(v) == IF v < 0 THEN 0 ELSE IF v > 255 THEN 255 ELSE v

\* numpy's image - smoothed_image on uint8 operands: modulo 256.
WrapSubtract(a, b) == (a - b) % 256

\* cv2.subtract on uint8 operands
cv_subtract(a, b) == SaturateCast(a - b)

\* cv2.add on uint8 operands
cv_add(a, b) == SaturateCast(a + b)

\* One pixel of edge_sharpening: x the image's value, b the blurred value.
SharpenPixel(x, b) == cv_add(x, cv_subtract(x, b))

edge_sharpening(image) ==
    LET smoothed_image == GaussianBlur(image)
    IN  Image(image.rows, image.cols,
              [p \in Pos(image.rows, image.cols) |->
                  SharpenPixel(image.px[p], smoothed_image.px[p])])

(***************************************************************************)
(* optimize_palette                                                        *)
(***************************************************************************)
\* Bitwise NOT of an 8-bit value, bit by bit.
RECURSIVE NotBits(_, _)
NotBits(x, bits) ==
    IF bits = 0 THEN 0
    ELSE (1 - (x % 2)) + 2 * NotBits(x \div 2, bits - 1)

\* Two's-complement negation of every pixel.
NegateU8(image) ==
    Image(image.rows, image.cols,
          [p \in Pos(image.rows, image.cols) |-> (256 - image.px[p]) % 256])

\* cv2.bitwise_not(image)
optimize_palette(image) ==
    Image(image.rows, image.cols,
          [p \in Pos(image.rows, image.cols) |-> NotBits(image.px[p], 8)])

(***************************************************************************)
(* The files the file dialog can return, and what a store of NaN into a    *)
(* uint8 array does.                                                       *)
(***************************************************************************)
Shapes == {s \in (1 .. MaxRows) \X (1 .. MaxCols) : s[1] * s[2] <= MaxPixels}

Images ==
    UNION {{Image(s[1], s[2], px) : px \in [Pos(s[1], s[2]) -> Levels]} : s \in Shapes}

\* The uniform 5x5 image of constant value 128.
Uniform128 == Image(5, 5, [p \in Pos(5, 5) |-> 128])

\* A file cv2.imread cannot decode.
Corrupt == [kind |-> "corrupt"]

Files == Images \cup {Uniform128, Corrupt}

\* enhanced_image[i, j] = <float32 NaN>: the conversion of NaN to an 8-bit
\* integer is undefined in C; depending on the numpy build the store raises
\* ValueError or leaves a byte. One build converts the same way every time.
Undetermined == [det |-> FALSE]

NaNCasts ==
    {[det |-> TRUE, raises |-> TRUE, value |-> 0],
     [det |-> TRUE, raises |-> FALSE, value |-> 0],
     [det |-> TRUE, raises |-> FALSE, value |-> 255]}

StoreOutcomes(d) ==
    IF d # NaN THEN {[det |-> TRUE, raises |-> FALSE, value |-> d]}
    ELSE IF nan_cast.det THEN {nan_cast}
    ELSE NaNCasts

(***************************************************************************)
(* State machine of main and process_image.                                *)
(***************************************************************************)
Init ==
    /\ pc = "main"
    /\ image_path = ""
    /\ disk = Unbound
    /\ nan_cast = Undetermined
    /\ flir_image = Unbound
    /\ filtered_image = Unbound
    /\ enhanced_image = Unbound
    /\ k = 0
    /\ sharpened_image = Unbound
    /\ optimized_image = Unbound
    /\ started = 0
    /\ finished = 0
    /\ error_dialog = FALSE
    /\ shown = FALSE
    /\ save_option = FALSE
    /\ save_path = ""
    /\ written = FALSE
    /\ info_dialog = FALSE
    /\ exc = ""
    /\ arg = <<>>
    /\ val = <<>>

pure == <<arg, val>>

images == <<flir_image, filtered_image, enhanced_image, k, sharpened_image,
            optimized_image>>

stages == <<started, finished>>

ui == <<error_dialog, shown, save_option, save_path, written, info_dialog>>

\* The error branch without its return.
NoImageSelectedFallThrough ==
    /\ error_dialog' = TRUE
    /\ pc' = "imread"

\* if not image_path: messagebox.showerror(...); return
NoImageSelected ==
    /\ error_dialog' = TRUE
    /\ pc' = "done"

\* main: askopenfilename, then the check of its result.
Main ==
    /\ pc = "main"
    /\ \/ /\ image_path' = ""
          /\ disk' = disk
          /\ NoImageSelected
       \/ /\ \E f \in Files : disk' = f
          /\ image_path' = "selected"
          /\ error_dialog' = error_dialog
          /\ pc' = "imread"
    /\ UNCHANGED <<nan_cast, images, stages, shown, save_option, save_path,
                   written, info_dialog, exc, pure>>

\* flir_image = cv2.imread(image_path, cv2.IMREAD_GRAYSCALE)
Imread ==
    /\ pc = "imread"
    /\ flir_image' = IF IsArray(disk) THEN disk ELSE None
    /\ pc' = "filter"
    /\ UNCHANGED <<image_path, disk, nan_cast, filtered_image, enhanced_image, k,
                   sharpened_image, optimized_image, stages, ui, exc, pure>>

\* filtered_image = adaptive_median_filter(flir_image)
Filter ==
    /\ pc = "filter"
    /\ started' = 1
    /\ IF IsArray(flir_image)
       THEN /\ filtered_image' = adaptive_median_filter(flir_image)
            /\ finished' = 1
            /\ pc' = "zeros_like"
            /\ exc' = exc
       ELSE /\ exc' = "AttributeError"
            /\ pc' = "crashed"
            /\ UNCHANGED <<filtered_image, finished>>
    /\ UNCHANGED <<image_path, disk, nan_cast, flir_image, enhanced_image, k,
                   sharpened_image, optimized_image, ui, pure>>

\* enhanced_image = np.zeros_like(filtered_image)
AllocEnhanced ==
    /\ pc = "zeros_like"
    /\ enhanced_image' = ZerosLike(filtered_image)
    /\ k' = 0
    /\ started' = 2
    /\ pc' = "enhance"
    /\ UNCHANGED <<image_path, disk, nan_cast, flir_image, filtered_image,
                   sharpened_image, optimized_image, finished, ui, exc, pure>>

\* The pixel written by one iteration, were enhanced_image the same buffer
\* as filtered_image.
EnhanceStepAliased ==
    /\ pc = "enhance"
    /\ k < Size(filtered_image)
    /\ LET p == PosAt(filtered_image, k)
           d == plateau_histogram(filtered_image)[filtered_image.px[p]]
       IN  \E c \in StoreOutcomes(d) :
               /\ nan_cast' = IF d = NaN THEN c ELSE nan_cast
               /\ IF c.raises
                  THEN /\ exc' = "ValueError"
                       /\ pc' = "crashed"
                       /\ UNCHANGED <<enhanced_image, filtered_image, k, finished>>
                  ELSE /\ enhanced_image' =
                              [enhanced_image EXCEPT !.px[p] = c.value]
                       /\ filtered_image' =
                              [filtered_image EXCEPT !.px[p] = c.value]
                       /\ k' = k + 1
                       /\ exc' = exc
                       /\ IF k + 1 = Size(filtered_image)
                          THEN finished' = 2 /\ pc' = "sharpen"
                          ELSE finished' = finished /\ pc' = pc
    /\ UNCHANGED <<image_path, disk, flir_image, sharpened_image,
                   optimized_image, started, ui, pure>>

\* One iteration of the nested loops:
\* enhanced_image[i, j] = plateau_histogram(filtered_image)[filtered_image[i, j]]
EnhanceStep ==
    /\ pc = "enhance"
    /\ k < Size(filtered_image)
    /\ LET p == PosAt(filtered_image, k)
           d == plateau_histogram(filtered_image)[filtered_image.px[p]]
       IN  \E c \in StoreOutcomes(d) :
               /\ nan_cast' = IF d = NaN THEN c ELSE nan_cast
               /\ IF c.raises
                  THEN /\ exc' = "ValueError"
                       /\ pc' = "crashed"
                       /\ UNCHANGED <<enhanced_image, k, finished>>
                  ELSE /\ enhanced_image' =
                              [enhanced_image EXCEPT !.px[p] = c.value]
                       /\ k' = k + 1
                       /\ exc' = exc
                       /\ IF k + 1 = Size(filtered_image)
                          THEN finished' = 2 /\ pc' = "sharpen"
                          ELSE finished' = finished /\ pc' = pc
    /\ UNCHANGED <<image_path, disk, flir_image, filtered_image, sharpened_image,
                   optimized_image, started, ui, pure>>

\* sharpened_image = edge_sharpening(enhanced_image)
Sharpen ==
    /\ pc = "sharpen"
    /\ sharpened_image' = edge_sharpening(enhanced_image)
    /\ started' = 3
    /\ finished' = 3
    /\ pc' = "optimize"
    /\ UNCHANGED <<image_path, disk, nan_cast, flir_image, filtered_image,
                   enhanced_image, k, optimized_image, ui, exc, pure>>

\* optimized_image = optimize_palette(sharpened_image)
Optimize ==
    /\ pc = "optimize"
    /\ optimized_image' = optimize_palette(sharpened_image)
    /\ started' = 4
    /\ finished' = 4
    /\ pc' = "imshow"
    /\ UNCHANGED <<image_path, disk, nan_cast, flir_image, filtered_image,
                   enhanced_image, k, sharpened_image, ui, exc, pure>>

\* cv2.imshow, cv2.waitKey(0), cv2.destroyAllWindows, messagebox.askyesno
ShowAndAsk ==
    /\ pc = "imshow"
    /\ shown' = TRUE
    /\ \E answer \in BOOLEAN :
           /\ save_option' = answer
           /\ pc' = IF answer THEN "save" ELSE "done"
    /\ UNCHANGED <<image_path, disk, nan_cast, images, stages, error_dialog,
                   save_path, written, info_dialog, exc, pure>>

\* filedialog.asksaveasfilename, cv2.imwrite, messagebox.showinfo; imwrite
\* raises cv2.error for the empty path of a cancelled dialog.
Save ==
    /\ pc = "save"
    /\ \E path \in {"", "out.jpg"} :
           /\ save_path' = path
           /\ IF path = ""
              THEN /\ exc' = "cv2.error"
                   /\ pc' = "crashed"
                   /\ UNCHANGED <<written, info_dialog>>
              ELSE /\ written' = TRUE
                   /\ info_dialog' = TRUE
                   /\ pc' = "done"
                   /\ exc' = exc
    /\ UNCHANGED <<image_path, disk, nan_cast, images, stages, error_dialog,
                   shown, save_option, pure>>

Next ==
    \/ Main
    \/ Imread
    \/ Filter
    \/ AllocEnhanced
    \/ EnhanceStep
    \/ Sharpen
    \/ Optimize
    \/ ShowAndAsk
    \/ Save

Spec == Init /\ [][Next]_vars

(***************************************************************************)
(* The per-pixel operations on every 8-bit operand.                        *)
(***************************************************************************)
Bytes == 0 .. 255

Pixel(x) == Image(1, 1, [p \in Pos(1, 1) |-> x])

\* edge_sharpening at one pixel of value arg[1] whose blurred value is arg[2].
SharpenInit ==
    /\ Init!1 /\ Init!2 /\ Init!3 /\ Init!4 /\ Init!5 /\ Init!6 /\ Init!7
    /\ Init!8 /\ Init!9 /\ Init!10 /\ Init!11 /\ Init!12 /\ Init!13 /\ Init!14
    /\ Init!15 /\ Init!16 /\ Init!17 /\ Init!18 /\ Init!19
    /\ arg \in Bytes \X Bytes
    /\ val = <<>>

SharpenApply ==
    /\ val = <<>>
    /\ val' = <<SharpenPixel(arg[1], arg[2])>>
    /\ UNCHANGED <<pc, image_path, disk, nan_cast, images, stages, ui, exc, arg>>

SharpenNext == SharpenApply

SpecSharpen == SharpenInit /\ [][SharpenNext]_vars

\* optimize_palette applied once, then again to its own result.
PaletteInit ==
    /\ Init!1 /\ Init!2 /\ Init!3 /\ Init!4 /\ Init!5 /\ Init!6 /\ Init!7
    /\ Init!8 /\ Init!9 /\ Init!10 /\ Init!11 /\ Init!12 /\ Init!13 /\ Init!14
    /\ Init!15 /\ Init!16 /\ Init!17 /\ Init!18 /\ Init!19
    /\ arg \in {<<Pixel(x)>> : x \in Bytes}
    /\ val = <<>>

PaletteApply ==
    /\ Len(val) < 2
    /\ val' = Append(val, optimize_palette(IF val = <<>> THEN arg[1] ELSE val[Len(val)]))
    /\ UNCHANGED <<pc, image_path, disk, nan_cast, images, stages, ui, exc, arg>>

PaletteNext == PaletteApply

SpecPalette == PaletteInit /\ [][PaletteNext]_vars

(***************************************************************************)
(* Properties.                                                             *)
(***************************************************************************)
Cells(image) == Pos(image.rows, image.cols)

Min2(a, b) == IF a <= b THEN a ELSE b

Max2(a, b) == IF a >= b THEN a ELSE b

\* C1: the remap table returned by plateau_histogram has all 256 entries in
\* [0, 255] and is non-decreasing.
C1_TableInRangeMonotone ==
    pc = "enhance" =>
        LET Dt == plateau_histogram(filtered_image)
        IN  \A i \in Bins :
                /\ Dt[i] # NaN
                /\ Dt[i] \in 0 .. 255
                /\ i < 255 => Dt[i] <= Dt[i + 1]

\* C2: for every image with at least one pixel the total Ft[255] of the
\* plateau-clipped histogram is non-zero, so the division never divides by zero.
C2_ClippedTotalNonZero ==
    (pc = "enhance" /\ Size(filtered_image) >= 1) => MaxFt(filtered_image) # 0

\* The filtered uniform image: the interior (rows 1..3, columns 1..3) at 128,
\* the border rows and columns at 0.
Uniform128Filtered ==
    /\ filtered_image.rows = 5
    /\ filtered_image.cols = 5
    /\ \A p \in Cells(filtered_image) :
           filtered_image.px[p] =
               IF p[1] \in 1 .. 3 /\ p[2] \in 1 .. 3 THEN 128 ELSE 0

\* C3 as stated: for the uniform 5x5 image of value 128 the filter leaves the
\* interior at 128 and the borders at 0, and plateau_histogram of the filtered
\* image computes threshold 0, clips the populated bin to 0, and returns a
\* table with Dt[128] = 255 and Dt[v] = 0 for every v < 128.
C3_Uniform128AsStated ==
    (flir_image = Uniform128 /\ pc = "enhance") =>
        /\ Uniform128Filtered
        /\ Threshold(CalcHist(filtered_image)) = 0
        /\ Clipped(filtered_image)[128] = 0
        /\ plateau_histogram(filtered_image)[128] = 255
        /\ \A v \in 0 .. 127 : plateau_histogram(filtered_image)[v] = 0

\* C3 amended: for the uniform 5x5 image of value 128 the filter leaves the
\* 3x3 interior at 128 and the 16 border pixels at 0; plateau_histogram of the
\* filtered image computes threshold 64, clips no bin (counts 16 and 9), and
\* returns Dt[128] = 255 and Dt[v] = 163 for every v < 128.
C3_Uniform128Table ==
    (flir_image = Uniform128 /\ pc = "enhance") =>
        /\ Uniform128Filtered
        /\ Threshold(CalcHist(filtered_image)) = 64
        /\ Clipped(filtered_image) = CalcHist(filtered_image)
        /\ CalcHist(filtered_image)[0] = 16
        /\ CalcHist(filtered_image)[128] = 9
        /\ plateau_histogram(filtered_image)[128] = 255
        /\ \A v \in 0 .. 127 : plateau_histogram(filtered_image)[v] = 163

\* The loop has remapped the first interior pixel of the uniform image.
C3_Witness ==
    /\ flir_image = Uniform128
    /\ pc = "enhance"
    /\ k = 7
    /\ enhanced_image.px[<<1, 1>>] = 255
    /\ enhanced_image.px[<<0, 0>>] = 163

\* C4: at every interior pixel the guard "center > max or center < min" is
\* false and the filter's output equals its input.
C4_InteriorCopied ==
    IsArray(filtered_image) =>
        \A p \in Cells(flir_image) :
            Interior(flir_image, p) =>
                /\ ~ReplaceGuard(flir_image, p[1], p[2])
                /\ filtered_image.px[p] = flir_image.px[p]

\* An interior pixel that is the strict maximum of its neighbourhood.
C4_Witness ==
    /\ IsArray(filtered_image)
    /\ \E p \in Cells(flir_image) :
           /\ Interior(flir_image, p)
           /\ flir_image.px[p] = 255
           /\ filtered_image.px[p] = 255
           /\ \A q \in Cells(flir_image) :
                  (q # p /\ q[1] - p[1] \in -1 .. 1 /\ q[2] - p[2] \in -1 .. 1)
                      => flir_image.px[q] = 2

\* C5: the filter returns an image of the input's shape whose border pixels
\* (row 0, row H-1, col 0, col W-1) are 0, also when H < 3 or W < 3.
C5_BorderZero ==
    IsArray(filtered_image) =>
        /\ filtered_image.rows = flir_image.rows
        /\ filtered_image.cols = flir_image.cols
        /\ DOMAIN filtered_image.px = Cells(flir_image)
        /\ \A p \in Cells(flir_image) :
               (p[1] \in {0, flir_image.rows - 1} \/ p[2] \in {0, flir_image.cols - 1})
                   => filtered_image.px[p] = 0

\* A two-row image, all of whose pixels are 255, has been filtered.
C5_Witness ==
    /\ IsArray(filtered_image)
    /\ flir_image.rows = 2
    /\ flir_image.cols = 3
    /\ \A p \in Cells(flir_image) : flir_image.px[p] = 255 /\ filtered_image.px[p] = 0

\* C6: a run either completes all four stages or is aborted before stage 1
\* starts; none fails after stage 1 has started and before stage 4 has finished.
C6_AllStagesOrNone ==
    pc \in {"done", "crashed"} => (started = 0 \/ finished = 4)

\* C7: when the file dialog returns no path, main shows the error dialog and
\* returns: no image is loaded, no stage runs, nothing is displayed, no save
\* prompt is shown and no file is written.
C7_NoSelectionNoProcessing ==
    (pc # "main" /\ image_path = "") =>
        /\ pc = "done"
        /\ error_dialog
        /\ flir_image = Unbound
        /\ filtered_image = Unbound
        /\ enhanced_image = Unbound
        /\ sharpened_image = Unbound
        /\ optimized_image = Unbound
        /\ started = 0
        /\ finished = 0
        /\ ~shown
        /\ ~save_option
        /\ save_path = ""
        /\ ~written
        /\ ~info_dialog
        /\ exc = ""

C7_Witness == pc = "done" /\ image_path = "" /\ error_dialog

\* C8: edge_sharpening's output at a pixel of value x with blurred value b is
\* min(255, x + max(0, x - b)), which lies in [0, 255].
C8_SharpenSaturates ==
    val # <<>> =>
        /\ val[1] = Min2(255, arg[1] + Max2(0, arg[1] - arg[2]))
        /\ val[1] \in 0 .. 255

\* The addition has saturated: x = 200, b = 100 gives 200 + 100 > 255.
C8_Witness == val = <<255>> /\ arg = <<200, 100>>

\* C9: optimize_palette maps x to 255 - x, and applied twice it returns the
\* original image.
C9_InvertInvolution ==
    /\ Len(val) >= 1 => val[1] = Pixel(255 - arg[1].px[<<0, 0>>])
    /\ Len(val) = 2 => val[2] = arg[1]

C9_Witness == Len(val) = 2 /\ arg[1] = Pixel(128) /\ val[1] = Pixel(127)

\* The pixels written so far hold the entries of the table Dt for the filtered
\* pixels, as stored into uint8.
WrittenFrom(Dt) ==
    \A n \in 0 .. k - 1 :
        LET p == PosAt(filtered_image, n)
            d == Dt[filtered_image.px[p]]
        IN  enhanced_image.px[p] = IF d = NaN THEN nan_cast.value ELSE d

\* C10: while the enhancement loop runs and when it has finished, the filtered
\* image is still the one stage 1 returned, so the table recomputed at each
\* pixel is the table computed once before the loop, and every pixel written
\* holds that table's entry for the filtered pixel, as stored into uint8.
C10_TableHoistable ==
    pc \in {"enhance", "sharpen"} =>
        /\ filtered_image = adaptive_median_filter(flir_image)
        /\ WrittenFrom(plateau_histogram(adaptive_median_filter(flir_image)))

\* The loop has finished on an image whose table has distinct entries in use.
C10_Witness ==
    /\ pc = "sharpen"
    /\ nan_cast = Undetermined
    /\ \E p, q \in Cells(enhanced_image) :
           enhanced_image.px[p] = 85 /\ enhanced_image.px[q] = 170

====
